---- MODULE Spec2Model ----
(***************************************************************************)
(* The zoe tree-walking interpreter (interpreter.ts, runtime.ts, main.ts). *)
(*                                                                         *)
(* Runtime values are JavaScript objects {tag, value}: they live in a heap *)
(* of cells and are passed around by reference (a cell index).  Uint8Array *)
(* buffers, object maps and scope frames are heaps of their own.  The      *)
(* evaluator is the recursive function evaluate of the source, written as  *)
(* recursive operators that thread the heap; a thrown JavaScript exception *)
(* is the completion "throw".  The driver is the REPL loop of main.ts: one *)
(* action is one iteration of the loop on one input line.                  *)
(***************************************************************************)
EXTENDS Integers, Sequences, FiniteSets, TLC

VARIABLES
  cells,    \* heap of RuntimeValue objects: cell index -> [tag, value, captured]
  bufs,     \* heap of Uint8Array buffers: index -> sequence of bytes
  maps,     \* heap of JS objects used as maps: index -> sequence of [key, cell]
  scopes,   \* heap of Scope_t frames: index -> [parent, vars]; 1 is globalScope
  out,      \* lines written by console.log
  calls,    \* history: what evalCallExpr did, in order
  lits,     \* history: the String literal nodes the parser built
  nfns,     \* number of function literal nodes the parser built
  input,    \* the line the REPL read last
  status,   \* how the last interpret(...) ended
  nlines,   \* number of lines read so far
  nargs,    \* Deno.args.length
  exit      \* <<>> while the process runs, <<code>> once it has exited

vars ==
  <<cells, bufs, maps, scopes, out, calls, lits, nfns, input, status, nlines, nargs, exit>>

(***************************************************************************)
(* Bounds of the model.                                                    *)
(***************************************************************************)
MaxLines == 3

(***************************************************************************)
(* JavaScript values held in the `value` field of a runtime value.  t is   *)
(* the JavaScript type; a float is the rational v[1]/v[2] in lowest terms  *)
(* with v[2] > 0, and <<0, 0>> is NaN; a Uint8Array, a map and a host      *)
(* function are references; an AST node is the reference to that node.     *)
(***************************************************************************)
JsNull == [t |-> "null", v |-> 0]
JsBool(b) == [t |-> "boolean", v |-> b]
JsBigInt(n) == [t |-> "bigint", v |-> n]
JsNumber(q) == [t |-> "number", v |-> q]
JsU8(b) == [t |-> "Uint8Array", v |-> b]
JsMap(m) == [t |-> "object", v |-> m]
JsHostFn(name) == [t |-> "function", v |-> name]
JsAst(node) == [t |-> "ast", v |-> node.id, node |-> node]

NaN == <<0, 0>>

Abs(n) == IF n < 0 THEN -n ELSE n

RECURSIVE Gcd(_, _)
Gcd(a, b) == IF b = 0 THEN a ELSE Gcd(b, a % b)

\* the rational n/d (d # 0) in lowest terms with a positive denominator
Rat(n, d) ==
  LET g == Gcd(Abs(n), Abs(d))
      s == IF d < 0 THEN -1 ELSE 1
  IN <<(s * n) \div g, (s * d) \div g>>

\* BigInt division of JavaScript: the quotient truncated toward zero
TruncDiv(a, b) ==
  LET q == Abs(a) \div Abs(b)
  IN IF (a < 0) = (b < 0) THEN q ELSE -q

\* BigInt remainder of JavaScript: the sign of the dividend
TruncRem(a, b) == a - b * TruncDiv(a, b)

\* x === y of JavaScript
StrictEquals(x, y) ==
  /\ x.t = y.t
  /\ CASE x.t = "null" -> TRUE
       [] x.t = "number" -> x.v # NaN /\ x.v = y.v
       [] OTHER -> x.v = y.v

(***************************************************************************)
(* runtime.ts: the constructors of the tagged runtime values.              *)
(***************************************************************************)
NullValue == [tag |-> "NULL", value |-> JsNull]
FloatValue(q) == [tag |-> "FLOAT", value |-> JsNumber(q)]
IntegerValue(n) == [tag |-> "INTEGER", value |-> JsBigInt(n)]
BooleanValue(b) == [tag |-> "BOOLEAN", value |-> JsBool(b)]
StringValue(buf) == [tag |-> "STRING", value |-> JsU8(buf)]
ObjectValue(m) == [tag |-> "OBJECT", value |-> JsMap(m)]
JsFnValue(name) == [tag |-> "JS_FN", value |-> JsHostFn(name)]
FunctionValue(captured, node) ==
  [tag |-> "FUNCTION", value |-> JsAst(node), captured |-> captured]

(***************************************************************************)
(* Completions.  An evaluation ends "ok" with the cell of its value, or    *)
(* "throw" with the exception object: an Error (cls "Error"), the Return   *)
(* sentinel (cls "Return", carrying a cell), or an exception of the host   *)
(* (RangeError, TypeError).  A message is a sequence of words, so that its *)
(* first word can be inspected.                                            *)
(***************************************************************************)
Ok(st, v) == [v |-> v, st |-> st, sig |-> "ok"]
Exc(cls, message, value) == [value |-> value, cls |-> cls, message |-> message]
Throw(st, message) == [v |-> Exc("Error", message, 0), st |-> st, sig |-> "throw"]
ThrowHost(st, cls, message) == [v |-> Exc(cls, message, 0), st |-> st, sig |-> "throw"]

\* const x = e; ...: Only([x \in {e} |-> b]) is b with x bound to the value of e
Only(f) == f[CHOOSE d \in DOMAIN f : TRUE]

\* allocate a runtime value object
New(st, cell) == Ok([st EXCEPT !.cells = Append(@, cell)], Len(st.cells) + 1)

(***************************************************************************)
(* Arithmetic of JavaScript numbers, on the rationals above.               *)
(***************************************************************************)
NumAdd(a, b) == IF a = NaN \/ b = NaN THEN NaN ELSE Rat(a[1] * b[2] + b[1] * a[2], a[2] * b[2])
NumSub(a, b) == IF a = NaN \/ b = NaN THEN NaN ELSE Rat(a[1] * b[2] - b[1] * a[2], a[2] * b[2])
NumMul(a, b) == IF a = NaN \/ b = NaN THEN NaN ELSE Rat(a[1] * b[1], a[2] * b[2])
\* a / b for b # 0 (the evaluator guards the zero divisor)
NumDiv(a, b) == IF a = NaN \/ b = NaN THEN NaN ELSE Rat(a[1] * b[2], a[2] * b[1])
\* a % b: NaN for a zero divisor, else a - b * trunc(a / b)
NumRem(a, b) ==
  IF a = NaN \/ b = NaN \/ b[1] = 0 THEN NaN
  ELSE NumSub(a, NumMul(b, <<TruncDiv(a[1] * b[2], a[2] * b[1]), 1>>))
NumLess(a, b) == a # NaN /\ b # NaN /\ a[1] * b[2] < b[1] * a[2]

(***************************************************************************)
(* Uint8Array element access.  Indices are 0-based in the source and       *)
(* 1-based in the sequences here.  A read outside the array is undefined;  *)
(* a write outside the array (a negative index included) does nothing; a   *)
(* stored number is reduced modulo 256.                                    *)
(***************************************************************************)
Undefined == [t |-> "undefined", v |-> 0]

U8Get(buf, i) == IF i >= 0 /\ i < Len(buf) THEN JsNumber(<<buf[i + 1], 1>>) ELSE Undefined

U8Set(buf, i, n) == IF i >= 0 /\ i < Len(buf) THEN [buf EXCEPT ![i + 1] = n % 256] ELSE buf

(***************************************************************************)
(* JS objects used as maps: a sequence of [key, cell] in insertion order.  *)
(***************************************************************************)
MapHas(m, key) == \E i \in 1..Len(m) : m[i].key = key

\* m[key], 0 standing for undefined
MapGet(m, key) ==
  IF MapHas(m, key) THEN m[CHOOSE i \in 1..Len(m) : m[i].key = key].cell ELSE 0

\* m[key] = cell
MapSet(m, key, cell) ==
  IF MapHas(m, key)
  THEN [i \in 1..Len(m) |-> IF m[i].key = key THEN [cell |-> cell, key |-> key] ELSE m[i]]
  ELSE Append(m, [cell |-> cell, key |-> key])

(***************************************************************************)
(* scope.ts: a frame is [parent, vars]; parent 0 is null.                  *)
(***************************************************************************)
NoVars == [x \in {} |-> 0]

\* Scope(parent): a new empty frame
Scope(st, parent) ==
  Ok([st EXCEPT !.scopes = Append(@, [vars |-> NoVars, parent |-> parent])],
     Len(st.scopes) + 1)

\* declare name in this frame; redeclaring it in the same frame is an error
initVar(st, scope, name, cell) ==
  IF name \in DOMAIN st.scopes[scope].vars
  THEN Throw(st, <<"error:", "variable", name, "is already declared">>)
  ELSE Ok([st EXCEPT !.scopes[scope].vars = (name :> cell) @@ @], cell)

RECURSIVE resolve(_, _, _)
\* the first frame of the parent chain that binds name, 0 when none does
resolve(st, scope, name) ==
  IF scope = 0 THEN 0
  ELSE IF name \in DOMAIN st.scopes[scope].vars THEN scope
  ELSE resolve(st, st.scopes[scope].parent, name)

lookupVar(st, scope, name) ==
  LET s == resolve(st, scope, name)
  IN IF s = 0 THEN Throw(st, <<"error:", "undefined variable", name>>)
     ELSE Ok(st, st.scopes[s].vars[name])

assignVar(st, scope, name, cell) ==
  LET s == resolve(st, scope, name)
  IN IF s = 0 THEN Throw(st, <<"error:", "undefined variable", name>>)
     ELSE Ok([st EXCEPT !.scopes[s].vars[name] = cell], cell)

(***************************************************************************)
(* ast.ts: the nodes the parser builds.  A String literal node owns the    *)
(* Uint8Array `value` (a buffer index); a function literal node has an     *)
(* identity (id), since the evaluator compares nodes by reference.         *)
(***************************************************************************)
Nil == [tag |-> "NIL"]
VarStmt(symbol, expr) == [tag |-> "VAR_STMT", symbol |-> symbol, expr |-> expr]
ExprStmt(expr) == [tag |-> "EXPRESSION_STMT", expr |-> expr]
BlockStmt(stmts) == [tag |-> "BLOCK_STMT", stmts |-> stmts]
IfStmt(ifs, dflt) == [tag |-> "IF_STMT", ifs |-> ifs, dflt |-> dflt]
IfSect(condition, block) == [condition |-> condition, block |-> block]
ReturnStmt(expr) == [tag |-> "RETURN_STMT", expr |-> expr]
IntegerLiteralExpr(v) == [tag |-> "INTEGER_LITERAL_EXPR", value |-> v]
FloatLiteralExpr(q) == [tag |-> "FLOAT_LITERAL_EXPR", value |-> q]
NullLiteralExpr == [tag |-> "NULL_LITERAL_EXPR"]
BooleanLiteralExpr(b) == [tag |-> "BOOLEAN_LITERAL_EXPR", value |-> b]
StringLiteralExpr(buf) == [tag |-> "STRING_LITERAL_EXPR", value |-> buf]
IdentifierExpr(symbol) == [tag |-> "IDENTIFIER_EXPR", symbol |-> symbol]
BinaryExpr(left, operator, right) ==
  [tag |-> "BINARY_EXPR", left |-> left, operator |-> operator, right |-> right]
UnaryExpr(operator, expr) == [tag |-> "UNARY_EXPR", expr |-> expr, operator |-> operator]
AssignmentExpr(assignee, value) ==
  [tag |-> "ASSIGNMENT_EXPR", value |-> value, operator |-> "=", assignee |-> assignee]
MemberExpr(left, right) == [tag |-> "MEMBER_EXPR", left |-> left, right |-> right]
SubscriptExpr(left, right) == [tag |-> "SUBSCRIPT_EXPR", left |-> left, right |-> right]
CallExpr(caller, args) == [tag |-> "CALL_EXPR", caller |-> caller, args |-> args]
Property(symbol, value) == [value |-> value, symbol |-> symbol]
ObjectLiteralExpr(properties) == [tag |-> "OBJECT_LITERAL_EXPR", properties |-> properties]
FunctionLiteralExpr(id, parameters, block) ==
  [id |-> id, tag |-> "FUNCTION_LITERAL_EXPR", block |-> block, parameters |-> parameters]

(***************************************************************************)
(* main.ts: stringification and the host functions of the root scope.      *)
(* A JavaScript string is a sequence of words here.                        *)
(***************************************************************************)
\* TextDecoder: one character per byte, for the bytes the lines below use
Chr(b) ==
  CASE b = 72 -> "H"
    [] b = 104 -> "h"
    [] b = 105 -> "i"
    [] b = 111 -> "o"
    [] OTHER -> "\\x" \o ToString(b)

decode(buf) == [i \in 1..Len(buf) |-> Chr(buf[i])]

\* number.toString(), with ".0" appended when it shows no "."
floatToString(q) ==
  IF q = NaN THEN <<"NaN", ".0">>
  ELSE IF q[2] = 1 THEN <<ToString(q[1]), ".0">>
  ELSE <<ToString(q[1]), "/", ToString(q[2])>>

RECURSIVE stringifyZoeValue(_, _), stringifyZoeObject(_, _), stringifyEntries(_, _, _)
stringifyZoeValue(st, rv) ==
  CASE rv.tag = "NULL" -> <<"nil">>
    [] rv.tag = "FLOAT" -> floatToString(rv.value.v)
    [] rv.tag = "INTEGER" -> <<ToString(rv.value.v)>>
    [] rv.tag = "BOOLEAN" -> <<IF rv.value.v THEN "true" ELSE "false">>
    [] rv.tag = "OBJECT" -> stringifyZoeObject(st, rv)
    [] rv.tag = "JS_FN" -> <<"[JavaScript Function]">>
    [] rv.tag = "FUNCTION" -> <<"[Zoe Function]">>
    [] rv.tag = "STRING" -> decode(st.bufs[rv.value.v])

\* the entries from i on, each but the last followed by ", "
stringifyEntries(st, entries, i) ==
  LET e == <<entries[i].key, ": ">> \o stringifyZoeValue(st, st.cells[entries[i].cell])
  IN IF i = Len(entries) THEN e \o <<" }">>
     ELSE e \o <<", ">> \o stringifyEntries(st, entries, i + 1)

stringifyZoeObject(st, rv) ==
  LET entries == st.maps[rv.value.v]
  IN IF Len(entries) = 0 THEN <<"{}">>
     ELSE <<"{ ">> \o stringifyEntries(st, entries, 1)

consoleLog(st, line) == [st EXCEPT !.out = Append(@, line)]

print(st, rv_arr) ==
  IF Len(rv_arr) # 1 THEN Throw(st, <<"error:", "print function expects one argument">>)
  ELSE New(consoleLog(st, stringifyZoeValue(st, st.cells[rv_arr[1]])), NullValue)

panic(st, rv_arr) ==
  IF Len(rv_arr) # 1 THEN Throw(st, <<"error:", "panic function expects one argument">>)
  ELSE Throw(st, <<"error:">> \o stringifyZoeValue(st, st.cells[rv_arr[1]]))

stringsLen(st, rv_arr) ==
  IF Len(rv_arr) # 1
  THEN Throw(st, <<"error:", "strings.len function expects one argument">>)
  ELSE IF st.cells[rv_arr[1]].tag # "STRING"
  THEN Throw(st, <<"error:", "strings.len function expects a string">>)
  ELSE New(st, IntegerValue(Len(st.bufs[st.cells[rv_arr[1]].value.v])))

\* fn.value(args) for a host function
hostCall(st, name, rv_arr) ==
  CASE name = "print" -> print(st, rv_arr)
    [] name = "panic" -> panic(st, rv_arr)
    [] name = "strings.len" -> stringsLen(st, rv_arr)

\* the heap after main.ts built globalScope: print, panic and strings
globalScope == 1

Construction ==
  [cells |-> <<JsFnValue("print"), JsFnValue("panic"), JsFnValue("strings.len"), ObjectValue(1)>>,
   bufs |-> <<>>,
   maps |-> << <<[cell |-> 3, key |-> "len"]>> >>,
   scopes |-> <<[vars |-> ("print" :> 1) @@ ("panic" :> 2) @@ ("strings" :> 4), parent |-> 0]>>,
   out |-> <<>>,
   calls |-> <<>>]

(***************************************************************************)
(* interpreter.ts: the evaluator.  Every operator takes the node, the      *)
(* scope (a frame index) and the heap, and yields a completion.            *)
(***************************************************************************)
\* history of evalCallExpr: "enter", "arg" (argument i evaluated), "callee"
\* (callee evaluated), "body" (frame built with the bindings `bound`, body about
\* to run)
Event(ev, call, i, fn, frame, caller, args, bound) ==
  [i |-> i, caller |-> caller, args |-> args, ev |-> ev, call |-> call, fn |-> fn,
   frame |-> frame, bound |-> bound]

Log(st, e) == [st EXCEPT !.calls = Append(@, e)]

\* dynamic scoping: the frame of a call hangs under the caller's scope
CallerFrameParent(fn, scope) == scope

\* the parent of the frame of a call: Scope(fn.captured)
CallFrameParent(fn, scope) == fn.captured

\* a call that does not catch Return: every exception of the body propagates
catchNothing(r) == IF r.sig = "throw" THEN r ELSE New(r.st, NullValue)

\* try { evalBlockStmt(...) } catch (error) { ... } return NullValue()
catchReturn(r) ==
  IF r.sig = "throw"
  THEN IF r.v.cls = "Return" THEN Ok(r.st, r.v.value) ELSE r
  ELSE New(r.st, NullValue)

\* objects copied on write: the store goes to a copy no binding refers to
storeMemberCopy(st, parentVal, symbol, value) ==
  [st EXCEPT !.maps = Append(@, MapSet(@[parentVal.value.v], symbol, value))]

\* parentVal.value[child.symbol] = value
storeMember(st, parentVal, symbol, value) ==
  [st EXCEPT !.maps[parentVal.value.v] = MapSet(@, symbol, value)]

\* lhs.value[Number(rhs.value)] = Number(value.value)
storeByte(st, lhs, index, value) ==
  [st EXCEPT !.bufs[lhs.value.v] = U8Set(@, index, value)]

\* the u8Array built by the two loops of '+' on strings: the second loop
\* reads rhs.value[i] with the index of the destination
concatBytes(l, r) ==
  [i \in 1..(Len(l) + Len(r)) |->
     IF i <= Len(l) THEN l[i] ELSE IF i <= Len(r) THEN r[i] ELSE 0]

RECURSIVE evaluate(_, _, _), evalStmts(_, _, _, _), evalBlockStmt(_, _, _),
          evalSubscriptExpr(_, _, _), evalUnaryExpr(_, _, _), evalBinaryExpr(_, _, _),
          evalObjectLiteralExpr(_, _, _), evalProperties(_, _, _, _, _),
          evalMemberExpr(_, _, _), evalAssignmentExpr(_, _, _), evalCallExpr(_, _, _),
          evalArgs(_, _, _, _, _, _), bindParams(_, _, _, _, _), evalVarStmt(_, _, _),
          evalExprStmt(_, _, _), evalReturnStmt(_, _, _), evalIfStmt(_, _, _),
          evalIfSects(_, _, _, _)

evalIdentifierExpr(expr, scope, st) == lookupVar(st, scope, expr.symbol)

evaluate(node, scope, st) ==
  CASE node.tag = "VAR_STMT" -> evalVarStmt(node, scope, st)
    [] node.tag = "EXPRESSION_STMT" -> evalExprStmt(node, scope, st)
    [] node.tag = "INTEGER_LITERAL_EXPR" -> New(st, IntegerValue(node.value))
    [] node.tag = "FLOAT_LITERAL_EXPR" -> New(st, FloatValue(node.value))
    [] node.tag = "NULL_LITERAL_EXPR" -> New(st, NullValue)
    [] node.tag = "BOOLEAN_LITERAL_EXPR" ->
         IF node.value THEN New(st, BooleanValue(TRUE)) ELSE New(st, BooleanValue(FALSE))
    [] node.tag = "BINARY_EXPR" -> evalBinaryExpr(node, scope, st)
    [] node.tag = "IDENTIFIER_EXPR" -> evalIdentifierExpr(node, scope, st)
    [] node.tag = "OBJECT_LITERAL_EXPR" -> evalObjectLiteralExpr(node, scope, st)
    [] node.tag = "ASSIGNMENT_EXPR" -> evalAssignmentExpr(node, scope, st)
    [] node.tag = "MEMBER_EXPR" -> evalMemberExpr(node, scope, st)
    [] node.tag = "CALL_EXPR" -> evalCallExpr(node, scope, st)
    [] node.tag = "BLOCK_STMT" ->
         Only([sc \in {Scope(st, scope)} |-> evalBlockStmt(node, sc.v, sc.st)])
    [] node.tag = "FUNCTION_LITERAL_EXPR" -> New(st, FunctionValue(scope, node))
    [] node.tag = "RETURN_STMT" -> evalReturnStmt(node, scope, st)
    [] node.tag = "UNARY_EXPR" -> evalUnaryExpr(node, scope, st)
    [] node.tag = "IF_STMT" -> evalIfStmt(node, scope, st)
    [] node.tag = "STRING_LITERAL_EXPR" -> New(st, StringValue(node.value))
    [] node.tag = "SUBSCRIPT_EXPR" -> evalSubscriptExpr(node, scope, st)

evalSubscriptExpr(expr, scope, st) ==
  Only([l \in {evaluate(expr.left, scope, st)} |->
  IF l.sig # "ok" THEN l ELSE
  Only([r \in {evaluate(expr.right, scope, l.st)} |->
  IF r.sig # "ok" THEN r ELSE
  LET lhs == r.st.cells[l.v]
      rhs == r.st.cells[r.v]
  IN IF lhs.tag # "STRING"
     THEN Throw(r.st, <<"error:", "lhs of subscript expresssion must be a string">>)
     ELSE IF rhs.tag # "INTEGER"
     THEN Throw(r.st, <<"error:", "subscript expression expects integer argument">>)
     ELSE IF rhs.value.v >= Len(r.st.bufs[lhs.value.v])
     THEN Throw(r.st, <<"error:", "attempting to index outside of string range">>)
     ELSE LET e == U8Get(r.st.bufs[lhs.value.v], rhs.value.v)
          IN IF e.t = "undefined"
             THEN ThrowHost(r.st, "TypeError", <<"Cannot convert undefined to a BigInt">>)
             ELSE New(r.st, IntegerValue(e.v[1]))
  ])])

evalUnaryExpr(expr, scope, st) ==
  Only([r \in {evaluate(expr.expr, scope, st)} |->
  IF r.sig # "ok" THEN r ELSE
  LET rhs == r.st.cells[r.v] IN
  CASE expr.operator = "!" ->
         IF rhs.tag = "BOOLEAN"
         THEN Ok([r.st EXCEPT !.cells[r.v].value = JsBool(~rhs.value.v)], r.v)
         ELSE Throw(r.st, <<"error:", "unary operator '!' only allowed for boolean values">>)
    [] expr.operator = "-" ->
         CASE rhs.tag = "FLOAT" ->
                Ok([r.st EXCEPT !.cells[r.v].value =
                      JsNumber(NumMul(rhs.value.v, <<-1, 1>>))], r.v)
           [] rhs.tag = "INTEGER" ->
                Ok([r.st EXCEPT !.cells[r.v].value = JsBigInt(rhs.value.v * (-1))], r.v)
           [] OTHER ->
                Throw(r.st, <<"error:",
                              "unary operator '-' only allowed for float or int values">>)
    [] OTHER ->
         Throw(r.st, <<"error:", "unable to evaluate", expr.operator,
                       "as unary operator expression">>)
  ])

\* operands of two tags accepted: the operation yields nil
sameTimeOrNil(st, op) == New(st, NullValue)

\* the checks shared by '-', '*', '/', '%' and '+': operands of one tag
sameTime(st, op) == Throw(st, <<"error:", "operands for", op, "must be of the same time">>)

\* the switch of evalBinaryExpr on the operator, for the operand objects lhs and rhs
binarySwitch(op, lhs, rhs, s) ==
  CASE op = "and" ->
         IF lhs.tag # "BOOLEAN" \/ rhs.tag # "BOOLEAN"
         THEN Throw(s, <<"error:",
                         "both sides of 'and' operator must be boolean expressions">>)
         ELSE New(s, BooleanValue(lhs.value.v /\ rhs.value.v))
    [] op = "or" ->
         IF lhs.tag # "BOOLEAN" \/ rhs.tag # "BOOLEAN"
         THEN Throw(s, <<"error:",
                         "both sides of 'or' operator must be boolean expressions">>)
         ELSE New(s, BooleanValue(lhs.value.v \/ rhs.value.v))
    [] op = "==" ->
         IF StrictEquals(lhs.value, rhs.value)
         THEN New(s, BooleanValue(TRUE)) ELSE New(s, BooleanValue(FALSE))
    [] op = "!=" ->
         IF ~StrictEquals(lhs.value, rhs.value)
         THEN New(s, BooleanValue(TRUE)) ELSE New(s, BooleanValue(FALSE))
    [] op = "<" ->
         IF lhs.tag # rhs.tag
         THEN Throw(s, <<"error:", "operands for '<' must be of the same type">>)
         ELSE IF lhs.tag # "INTEGER" /\ lhs.tag # "FLOAT"
         THEN Throw(s, <<"error:", "operands for '<' must be of type int or float">>)
         ELSE IF lhs.tag = "INTEGER"
         THEN New(s, BooleanValue(lhs.value.v < rhs.value.v))
         ELSE New(s, BooleanValue(NumLess(lhs.value.v, rhs.value.v)))
    [] op = ">" ->
         IF lhs.tag # rhs.tag
         THEN Throw(s, <<"error:", "operands for '>' must be of the same type">>)
         ELSE IF lhs.tag # "INTEGER" /\ lhs.tag # "FLOAT"
         THEN Throw(s, <<"error:", "operands for '>' must be of type int or float">>)
         ELSE IF lhs.tag = "INTEGER"
         THEN New(s, BooleanValue(lhs.value.v > rhs.value.v))
         ELSE New(s, BooleanValue(NumLess(rhs.value.v, lhs.value.v)))
    [] op = "+" ->
         IF lhs.tag # rhs.tag THEN sameTime(s, "'+'")
         ELSE IF lhs.tag = "INTEGER" THEN New(s, IntegerValue(lhs.value.v + rhs.value.v))
         ELSE IF lhs.tag = "FLOAT"
         THEN New(s, FloatValue(NumAdd(lhs.value.v, rhs.value.v)))
         ELSE IF lhs.tag = "STRING"
         THEN New([s EXCEPT !.bufs =
                     Append(@, concatBytes(s.bufs[lhs.value.v], s.bufs[rhs.value.v]))],
                  StringValue(Len(s.bufs) + 1))
         ELSE Throw(s, <<"error:", "operands for '+' must be of type int, float, or string">>)
    [] op = "-" ->
         IF lhs.tag # rhs.tag THEN sameTime(s, "'-'")
         ELSE IF lhs.tag = "INTEGER" THEN New(s, IntegerValue(lhs.value.v - rhs.value.v))
         ELSE IF lhs.tag = "FLOAT"
         THEN New(s, FloatValue(NumSub(lhs.value.v, rhs.value.v)))
         ELSE Throw(s, <<"error:", "operands for '-' must be of type int or float">>)
    [] op = "*" ->
         IF lhs.tag # rhs.tag THEN sameTime(s, "'*'")
         ELSE IF lhs.tag = "INTEGER" THEN New(s, IntegerValue(lhs.value.v * rhs.value.v))
         ELSE IF lhs.tag = "FLOAT"
         THEN New(s, FloatValue(NumMul(lhs.value.v, rhs.value.v)))
         ELSE Throw(s, <<"error:", "operands for '*' must be of type int or float">>)
    [] op = "/" ->
         IF lhs.tag # rhs.tag THEN sameTime(s, "'/'")
         ELSE IF lhs.tag = "INTEGER"
         THEN IF StrictEquals(rhs.value, JsBigInt(0))
              THEN Throw(s, <<"error:", "division by zero not allowed">>)
              ELSE New(s, IntegerValue(TruncDiv(lhs.value.v, rhs.value.v)))
         ELSE IF lhs.tag = "FLOAT"
         THEN IF StrictEquals(rhs.value, JsNumber(<<0, 1>>))
              THEN Throw(s, <<"error:", "division by zero not allowed">>)
              ELSE New(s, FloatValue(NumDiv(lhs.value.v, rhs.value.v)))
         ELSE Throw(s, <<"error:", "operands for '/' must be of type int or float">>)
    [] op = "%" ->
         IF lhs.tag # rhs.tag THEN sameTime(s, "'%'")
         ELSE IF lhs.tag = "INTEGER"
         THEN \* lhs.value % rhs.value, unguarded: BigInt % 0n is a RangeError of the host
              IF rhs.value.v = 0
              THEN ThrowHost(s, "RangeError", <<"Division by zero">>)
              ELSE New(s, IntegerValue(TruncRem(lhs.value.v, rhs.value.v)))
         ELSE IF lhs.tag = "FLOAT"
         THEN New(s, FloatValue(NumRem(lhs.value.v, rhs.value.v)))
         ELSE Throw(s, <<"error:", "operands for '%' must be of type int or float">>)
    [] OTHER ->
         Throw(s, <<"error:", "unable to evaluate", op, "as binary operator expression">>)

evalBinaryExpr(expr, scope, st) ==
  Only([l \in {evaluate(expr.left, scope, st)} |->
  IF l.sig # "ok" THEN l ELSE
  Only([r \in {evaluate(expr.right, scope, l.st)} |->
  IF r.sig # "ok" THEN r
  ELSE binarySwitch(expr.operator, r.st.cells[l.v], r.st.cells[r.v], r.st)
  ])])

\* the loop of evalObjectLiteralExpr over expr.properties, from property i, m so far
evalProperties(properties, i, scope, st, m) ==
  IF i > Len(properties)
  THEN New([st EXCEPT !.maps = Append(@, m)], ObjectValue(Len(st.maps) + 1))
  ELSE Only([r \in {IF properties[i].value.tag = "NIL"
                     THEN lookupVar(st, scope, properties[i].symbol)
                     ELSE evaluate(properties[i].value, scope, st)} |->
       IF r.sig # "ok" THEN r
       ELSE evalProperties(properties, i + 1, scope, r.st,
                           MapSet(m, properties[i].symbol, r.v))
       ])

evalObjectLiteralExpr(expr, scope, st) == evalProperties(expr.properties, 1, scope, st, <<>>)

evalMemberExpr(expr, scope, st) ==
  Only([p \in {evaluate(expr.left, scope, st)} |->
  IF p.sig # "ok" THEN p ELSE
  LET parentVal == p.st.cells[p.v]
      child == expr.right
  IN IF parentVal.tag # "OBJECT"
     THEN Throw(p.st, <<"error:", "dot operator can only be called on type object">>)
     ELSE IF child.tag # "IDENTIFIER_EXPR"
     THEN Throw(p.st, <<"error:", "right hand side of dot operator must be an identifier">>)
     ELSE LET childVal == MapGet(p.st.maps[parentVal.value.v], child.symbol)
          IN IF childVal = 0
             THEN Throw(p.st, <<"error:", "field", child.symbol,
                                "is not present on calling object">>)
             ELSE Ok(p.st, childVal)
  ])

evalAssignmentExpr(expr, scope, st) ==
  IF expr.operator # "="
  THEN Throw(st, <<"error:", "unable to evaluate", expr.operator, "as assignment expression">>)
  ELSE
  CASE expr.assignee.tag = "IDENTIFIER_EXPR" ->
         Only([v \in {evaluate(expr.value, scope, st)} |->
         IF v.sig # "ok" THEN v ELSE
         Only([a \in {assignVar(v.st, scope, expr.assignee.symbol, v.v)} |->
         IF a.sig # "ok" THEN a ELSE Ok(a.st, v.v)
         ])])
    [] expr.assignee.tag = "MEMBER_EXPR" ->
         Only([p \in {evaluate(expr.assignee.left, scope, st)} |->
         IF p.sig # "ok" THEN p ELSE
         LET parentVal == p.st.cells[p.v]
             child == expr.assignee.right
         IN IF parentVal.tag # "OBJECT"
            THEN Throw(p.st, <<"error:", "dot operator can only be called on type object">>)
            ELSE IF child.tag # "IDENTIFIER_EXPR"
            THEN Throw(p.st, <<"error:",
                               "right hand side of dot operator must be an identifier">>)
            ELSE Only([v \in {evaluate(expr.value, scope, p.st)} |->
                 IF v.sig # "ok" THEN v
                 ELSE Ok(storeMember(v.st, parentVal, child.symbol, v.v), v.v)
                 ])
         ])
    [] expr.assignee.tag = "SUBSCRIPT_EXPR" ->
         Only([l \in {evaluate(expr.assignee.left, scope, st)} |->
         IF l.sig # "ok" THEN l ELSE
         Only([r \in {evaluate(expr.assignee.right, scope, l.st)} |->
         IF r.sig # "ok" THEN r ELSE
         LET lhs == r.st.cells[l.v]
             rhs == r.st.cells[r.v]
         IN IF lhs.tag # "STRING"
            THEN Throw(r.st, <<"error:", "lhs of subscript expresssion must be a string">>)
            ELSE IF rhs.tag # "INTEGER"
            THEN Throw(r.st, <<"error:", "subscript expression expects integer argument">>)
            ELSE IF rhs.value.v >= Len(r.st.bufs[lhs.value.v])
            THEN Throw(r.st, <<"error:", "attempting to index outside of string range">>)
            ELSE Only([v \in {evaluate(expr.value, scope, r.st)} |->
                 IF v.sig # "ok" THEN v
                 ELSE LET value == v.st.cells[v.v]
                      IN IF value.tag # "INTEGER"
                         THEN Throw(v.st, <<"error:",
                                "string index can only be assigned to type integer">>)
                         ELSE Ok(storeByte(v.st, lhs, rhs.value.v, value.value.v), v.v)
                 ])
         ])])
    [] OTHER ->
         Throw(st, <<"error:", "assignee must be an identifier or object property">>)

\* expr.args.map(...): the arguments from i on, in order; acc holds the cells so far
evalArgs(args, i, scope, st, id, acc) ==
  IF i > Len(args) THEN Ok(st, acc)
  ELSE Only([r \in {evaluate(args[i], scope, st)} |->
       IF r.sig # "ok" THEN r
       ELSE evalArgs(args, i + 1, scope,
                     Log(r.st, Event("arg", id, i, 0, 0, scope, <<>>, NoVars)), id,
                     Append(acc, r.v))
       ])

\* the loop of initVar over fn.value.parameters, from parameter i
bindParams(parameters, args, i, newScope, st) ==
  IF i > Len(parameters) THEN Ok(st, newScope)
  ELSE Only([b \in {initVar(st, newScope, parameters[i], args[i])} |->
       IF b.sig # "ok" THEN b
       ELSE bindParams(parameters, args, i + 1, newScope, b.st)
       ])

\* evalCallExpr once fn (the object in cell f) and args are evaluated
applyFn(id, f, fn, args, scope, s) ==
  IF fn.tag = "JS_FN" THEN hostCall(s, fn.value.v, args)
  ELSE IF fn.tag = "FUNCTION"
  THEN IF Len(args) # Len(fn.value.node.parameters)
       THEN Throw(s, <<"error:", "function call expected",
                       ToString(Len(fn.value.node.parameters)), "args, received",
                       ToString(Len(args))>>)
       ELSE Only([sc \in {Scope(s, CallFrameParent(fn, scope))} |->
            Only([b \in {bindParams(fn.value.node.parameters, args, 1, sc.v, sc.st)} |->
            IF b.sig # "ok" THEN b
            ELSE catchReturn(
                   evalBlockStmt(fn.value.node.block, sc.v,
                                 Log(b.st, Event("body", id, 0, f, sc.v, scope, args,
                                                 b.st.scopes[sc.v].vars))))
            ])])
  ELSE Throw(s, <<"error:", "non function types are not callable">>)

evalCallExpr(expr, scope, st) ==
  Only([id \in {Len(st.calls) + 1} |->
  Only([a \in {evalArgs(expr.args, 1, scope,
                        Log(st, Event("enter", id, 0, 0, 0, scope, <<>>, NoVars)), id, <<>>)} |->
  IF a.sig # "ok" THEN a ELSE
  Only([f \in {evaluate(expr.caller, scope, a.st)} |->
  IF f.sig # "ok" THEN f
  ELSE applyFn(id, f.v, f.st.cells[f.v], a.v, scope,
               Log(f.st, Event("callee", id, 0, f.v, 0, scope, <<>>, NoVars)))
  ])])])

evalVarStmt(stmt, scope, st) ==
  Only([v \in {evaluate(stmt.expr, scope, st)} |->
  IF v.sig # "ok" THEN v ELSE
  Only([d \in {initVar(v.st, scope, stmt.symbol, v.v)} |->
  IF d.sig # "ok" THEN d ELSE New(d.st, NullValue)
  ])])

evalExprStmt(stmt, scope, st) ==
  Only([v \in {evaluate(stmt.expr, scope, st)} |->
  IF v.sig # "ok" THEN v ELSE New(v.st, NullValue)
  ])

\* for (const stmt of stmts) evaluate(stmt, scope), from statement i
evalStmts(stmts, i, scope, st) ==
  IF i > Len(stmts) THEN New(st, NullValue)
  ELSE Only([r \in {evaluate(stmts[i], scope, st)} |->
       IF r.sig # "ok" THEN r ELSE evalStmts(stmts, i + 1, scope, r.st)
       ])

evalBlockStmt(block, scope, st) == evalStmts(block.stmts, 1, scope, st)

\* throw new Return(value)
evalReturnStmt(stmt, scope, st) ==
  Only([v \in {evaluate(stmt.expr, scope, st)} |->
  IF v.sig # "ok" THEN v
  ELSE [v |-> Exc("Return", <<"error:", "return statement only permitted within function">>,
                  v.v), st |-> v.st,
        sig |-> "throw"]
  ])

\* evalBlockStmt(block, Scope(scope)); return NullValue()
evalBranch(block, scope, st) ==
  Only([sc \in {Scope(st, scope)} |->
  Only([b \in {evalBlockStmt(block, sc.v, sc.st)} |->
  IF b.sig # "ok" THEN b ELSE New(b.st, NullValue)
  ])])

\* the loop of evalIfStmt over stmt.ifs, from section i
evalIfSects(stmt, i, scope, st) ==
  IF i > Len(stmt.ifs)
  THEN IF stmt.dflt.tag # "NIL" THEN evalBranch(stmt.dflt, scope, st)
       ELSE New(st, NullValue)
  ELSE Only([rv \in {evaluate(stmt.ifs[i].condition, scope, st)} |->
       IF rv.sig # "ok" THEN rv
       ELSE IF rv.st.cells[rv.v].tag # "BOOLEAN"
       THEN Throw(rv.st, <<"error:", "if condition must be a boolean expression">>)
       ELSE IF rv.st.cells[rv.v].value.v = TRUE
       THEN evalBranch(stmt.ifs[i].block, scope, rv.st)
       ELSE evalIfSects(stmt, i + 1, scope, rv.st)
       ])

evalIfStmt(stmt, scope, st) == evalIfSects(stmt, 1, scope, st)

RECURSIVE interpretFrom(_, _, _, _, _)
\* the loop of interpret, from statement i, with lastEval so far
interpretFrom(stmts, i, scope, st, lastEval) ==
  IF i > Len(stmts) THEN Ok(st, lastEval)
  ELSE Only([r \in {evaluate(stmts[i], scope, st)} |->
       IF r.sig # "ok" THEN r ELSE interpretFrom(stmts, i + 1, scope, r.st, r.v)
       ])

interpret(stmts, scope, st) ==
  Only([n \in {New(st, NullValue)} |-> interpretFrom(stmts, 1, scope, n.st, n.v)])

(***************************************************************************)
(* main.ts: the REPL loop.  lex and parse are given by their results: a    *)
(* line is [desc, lexErrs, parseErrs, stmts, lits, nfn], where lits are    *)
(* the bytes of the String literal nodes the parser built (each node owns  *)
(* a new Uint8Array) and nfn the number of function literal nodes.         *)
(***************************************************************************)
Desc(kind, op, n, m, i, v) == [v |-> v, n |-> n, m |-> m, i |-> i, op |-> op, kind |-> kind]

Line(desc, stmts, bytes, nfn) ==
  [lits |-> bytes, stmts |-> stmts, desc |-> desc, nfn |-> nfn, lexErrs |-> <<>>,
   parseErrs |-> <<>>]

Heap == [cells |-> cells, bufs |-> bufs, maps |-> maps, scopes |-> scopes, out |-> out,
         calls |-> calls]

RECURSIVE logAll(_, _, _)
\* for (const err of errs) console.log(err), from error i
logAll(st, errs, i) ==
  IF i > Len(errs) THEN st ELSE logAll(consoleLog(st, errs[i]), errs, i + 1)

Status(sig, cls, message) == [sig |-> sig, cls |-> cls, message |-> message]

\* a loop body without the test of hasError: interpret runs on every line
replBodyUngated(st, p) ==
  Only([r \in {interpret(p.stmts, globalScope,
                         logAll(logAll([st EXCEPT !.bufs = @ \o p.lits], p.lexErrs, 1),
                                p.parseErrs, 1))} |->
       IF r.sig = "throw"
       THEN [status |-> Status("throw", r.v.cls, r.v.message),
             st |-> consoleLog(r.st, r.v.message)]
       ELSE [status |-> Status("ok", "", <<>>), st |-> r.st] ])

\* the body of the loop on one line: the heap after it and how interpret ended
replBody(st, p) ==
  Only([st2 \in {logAll(logAll([st EXCEPT !.bufs = @ \o p.lits], p.lexErrs, 1),
                        p.parseErrs, 1)} |->
  IF Len(p.lexErrs) # 0 \/ Len(p.parseErrs) # 0
  THEN [status |-> Status("skipped", "", <<>>), st |-> st2]
  ELSE Only([r \in {interpret(p.stmts, globalScope, st2)} |->
       IF r.sig = "throw"
       THEN [status |-> Status("throw", r.v.cls, r.v.message),
             st |-> consoleLog(r.st, r.v.message)]
       ELSE [status |-> Status("ok", "", <<>>), st |-> r.st]
       ])
  ])

\* the String literal nodes of a line, with the buffers the parser gave them
litNodes(nb, p) == [i \in 1..Len(p.lits) |-> [buf |-> nb + i, bytes |-> p.lits[i]]]

\* the state after the loop body b ran on the line p
Becomes(b, p) ==
  /\ cells' = b.st.cells
  /\ bufs' = b.st.bufs
  /\ maps' = b.st.maps
  /\ scopes' = b.st.scopes
  /\ out' = b.st.out
  /\ calls' = b.st.calls
  /\ status' = b.status
  /\ lits' = lits \o litNodes(Len(bufs), p)
  /\ nfns' = nfns + p.nfn
  /\ input' = p.desc
  /\ nlines' = nlines + 1
  /\ nargs' = nargs

\* the state after the loop body b ran on p as the first line after construction
Started(b, p) ==
  /\ cells = b.st.cells
  /\ bufs = b.st.bufs
  /\ maps = b.st.maps
  /\ scopes = b.st.scopes
  /\ out = b.st.out
  /\ calls = b.st.calls
  /\ status = b.status
  /\ lits = litNodes(0, p)
  /\ nfns = p.nfn
  /\ input = p.desc
  /\ nlines = 0
  /\ nargs = 0
  /\ exit = <<>>

StartsWith(p) == Started(replBody(Construction, p), p)

\* one iteration of the loop, on the line p
Repl(p) ==
  /\ Becomes(replBody(Heap, p), p)
  /\ exit' = exit

(***************************************************************************)
(* Reading the root scope.                                                 *)
(***************************************************************************)
Declared(n) == n \in DOMAIN scopes[globalScope].vars
\* the runtime value object bound to n in globalScope
G(n) == cells[scopes[globalScope].vars[n]]

(***************************************************************************)
(* Input lines.  Each is the parse of a line of source text; nb is the     *)
(* number of Uint8Arrays and nf the number of function literal nodes that  *)
(* exist when the parser runs, which fixes the identity of the new nodes.  *)
(***************************************************************************)
Id(x) == IdentifierExpr(x)
IntExpr(n) == IF n < 0 THEN UnaryExpr("-", IntegerLiteralExpr(-n)) ELSE IntegerLiteralExpr(n)
FnExpr(id, parameters, stmts) == FunctionLiteralExpr(id, parameters, BlockStmt(stmts))
AssignStmt(n, expr) == ExprStmt(AssignmentExpr(Id(n), expr))

(***************************************************************************)
(* Operands of the operator lines: the expressions a and b are bound to.   *)
(***************************************************************************)
Operands ==
  << [v |-> -7, k |-> "int"], [v |-> -1, k |-> "int"], [v |-> 0, k |-> "int"],
     [v |-> 1, k |-> "int"], [v |-> 2, k |-> "int"], [v |-> 7, k |-> "int"],
     [v |-> <<0, 1>>, k |-> "float"], [v |-> <<1, 1>>, k |-> "float"],
     [v |-> <<3, 2>>, k |-> "float"], [v |-> TRUE, k |-> "bool"], [v |-> 0, k |-> "nil"],
     [v |-> <<>>, k |-> "str"], [v |-> <<104>>, k |-> "str"],
     [v |-> <<104, 105>>, k |-> "str"], [v |-> <<111>>, k |-> "str"],
     [v |-> 0, k |-> "obj"], [v |-> 0, k |-> "closure"], [v |-> 0, k |-> "host"],
     [v |-> 0, k |-> "alias"] >>

\* the expression of operand o, and the bytes of its String literal node
OperandExpr(o, nb) ==
  CASE o.k = "int" -> [lits |-> <<>>, expr |-> IntExpr(o.v)]
    [] o.k = "float" -> [lits |-> <<>>, expr |-> FloatLiteralExpr(o.v)]
    [] o.k = "bool" -> [lits |-> <<>>, expr |-> BooleanLiteralExpr(o.v)]
    [] o.k = "nil" -> [lits |-> <<>>, expr |-> NullLiteralExpr]
    [] o.k = "str" -> [lits |-> <<o.v>>, expr |-> StringLiteralExpr(nb + 1)]
    [] o.k = "obj" ->
         [lits |-> <<>>, expr |-> ObjectLiteralExpr(<<Property("k", IntegerLiteralExpr(1))>>)]
    [] o.k = "closure" -> [lits |-> <<>>, expr |-> CallExpr(Id("mk"), <<>>)]
    [] o.k = "host" -> [lits |-> <<>>, expr |-> Id("print")]
    [] o.k = "alias" -> [lits |-> <<>>, expr |-> Id("a")]

\* var mk = fn () { return fn () { return 0; }; }; var a = <oa>; var b = <ob>; var r = nil;
OperandsLine(oa, ob, nb, nf) ==
  LET ea == OperandExpr(Operands[oa], nb)
      eb == OperandExpr(Operands[ob], nb + Len(ea.lits))
  IN Line(Desc("operands", "", "", "", oa, ob),
          << VarStmt("mk", FnExpr(nf + 1, <<>>,
                              <<ReturnStmt(FnExpr(nf + 2, <<>>,
                                              <<ReturnStmt(IntegerLiteralExpr(0))>>))>>)),
             VarStmt("a", ea.expr), VarStmt("b", eb.expr), VarStmt("r", NullLiteralExpr) >>,
          ea.lits \o eb.lits, 2)

\* r = a <op> b;
BinaryLine(op) ==
  Line(Desc("binary", op, "", "", 0, 0), <<AssignStmt("r", BinaryExpr(Id("a"), op, Id("b")))>>,
       <<>>, 0)

\* r = a[b];
SubscriptLine(nb) ==
  Line(Desc("subscript", "", "", "", 0, 0), <<AssignStmt("r", SubscriptExpr(Id("a"), Id("b")))>>,
       <<>>, 0)

\* r = (a[b] = <v>);
StoreLine(v) ==
  Line(Desc("store", "", "", "", 0, v),
       <<AssignStmt("r", AssignmentExpr(SubscriptExpr(Id("a"), Id("b")), IntExpr(v)))>>, <<>>, 0)

\* r = fn () { print(1); return a; }() <op> fn () { print(2); return b; }();
BinaryCallsLine(op, nf) ==
  Line(Desc("binarycalls", op, "", "", 0, 0),
       <<AssignStmt("r",
           BinaryExpr(
             CallExpr(FnExpr(nf + 1, <<>>,
                             << ExprStmt(CallExpr(Id("print"), <<IntegerLiteralExpr(1)>>)),
                                ReturnStmt(Id("a")) >>), <<>>),
             op,
             CallExpr(FnExpr(nf + 2, <<>>,
                             << ExprStmt(CallExpr(Id("print"), <<IntegerLiteralExpr(2)>>)),
                                ReturnStmt(Id("b")) >>), <<>>)))>>,
       <<>>, 2)

BinaryOps == {"and", "or", "==", "!=", "<", ">", "+", "-", "*", "/", "%"}
StoredValues == {-1, 72, 300}

(***************************************************************************)
(* SpecOps: the REPL after a first line that binds the operands a and b,   *)
(* then lines that apply one operator to them.                             *)
(***************************************************************************)
MaxOps == 1

InitOps ==
  \E oa \in 1..(Len(Operands) - 1), ob \in 1..Len(Operands) :
    StartsWith(OperandsLine(oa, ob, 0, 0))

Binary ==
  \E op \in BinaryOps :
    /\ nlines < MaxOps
    /\ Repl(BinaryLine(op))
Subscript ==
  /\ nlines < MaxOps
  /\ Repl(SubscriptLine(Len(bufs)))
Store ==
  \E v \in StoredValues :
    /\ nlines < MaxOps
    /\ Repl(StoreLine(v))

BinaryCalls ==
  \E op \in BinaryOps :
    /\ nlines < MaxOps
    /\ Repl(BinaryCallsLine(op, nfns))

NextOps == Binary \/ Subscript \/ Store \/ BinaryCalls

SpecOps == InitOps /\ [][NextOps]_vars

(***************************************************************************)
(* Properties of the operator lines (SpecOps).  a and b are the operand    *)
(* cells, r the cell the line assigned.                                    *)
(***************************************************************************)
IsBinary(d, ops) == d.kind = "binary" /\ d.op \in ops
BothTagged(tag) == G("a").tag = tag /\ G("b").tag = tag

\* C7: for String operands a and b, `a + b` yields a new buffer of length
\* len(a)+len(b) holding the bytes of a followed by the bytes of b, and neither
\* operand buffer is modified.
C7_ConcatIsByteConcatenation ==
  [][(IsBinary(input', {"+"}) /\ BothTagged("STRING")) =>
       LET A == G("a").value.v
           B == G("b").value.v
           r == G("r")'
       IN /\ status'.sig = "ok"
          /\ r.tag = "STRING"
          /\ r.value.v > Len(bufs)
          /\ bufs'[r.value.v] = bufs[A] \o bufs[B]
          /\ bufs'[A] = bufs[A]
          /\ bufs'[B] = bufs[B]]_vars

\* the equality the value model defines: the same variant and, for the
\* primitives, the same value, or, for the references, the very same
\* buffer, map, closure (the Function value itself) or host function
SameValue(ca, cb) ==
  LET x == cells[ca]
      y == cells[cb]
  IN /\ x.tag = y.tag
     /\ CASE x.tag = "NULL" -> TRUE
          [] x.tag = "FUNCTION" -> ca = cb
          [] OTHER -> x.value.v = y.value.v

\* C8: `==` is true and `!=` false exactly when the operands have the same
\* variant and the same value (primitives) or are the very same buffer, map or
\* closure; two closures made by two evaluations of one function literal are
\* unequal.
C8_EqualityIsIdentity ==
  IsBinary(input, {"==", "!="}) =>
    LET same == SameValue(scopes[globalScope].vars["a"], scopes[globalScope].vars["b"])
    IN /\ status.sig = "ok"
       /\ G("r").tag = "BOOLEAN"
       /\ G("r").value.v = IF input.op = "==" THEN same ELSE ~same

\* q is a / b truncated toward zero
IsTruncatedQuotient(q, a, b) ==
  LET rem == a - q * b
  IN Abs(rem) < Abs(b) /\ (rem = 0 \/ (rem < 0) = (a < 0))

\* C9: for Integer operands, `a / 0` and `a % 0` both end the run with a
\* diagnostic that begins with `error:` and reports division by zero, and
\* produce no value; for a non-zero divisor Integer `/` truncates toward zero.
C9_DivisionAndModulusByZero ==
  [][(IsBinary(input', {"/", "%"}) /\ BothTagged("INTEGER")) =>
       LET a == G("a").value.v
           b == G("b").value.v
       IN IF b = 0
          THEN /\ status'.sig = "throw"
               /\ status'.message = <<"error:", "division by zero not allowed">>
               /\ scopes'[globalScope].vars["r"] = scopes[globalScope].vars["r"]
          ELSE /\ status'.sig = "ok"
               /\ G("r")'.tag = "INTEGER"
               /\ input'.op = "/" => IsTruncatedQuotient(G("r")'.value.v, a, b)]_vars

\* C10: for a String a and an Integer i, the read a[i] and the write a[i] = v
\* succeed only for 0 <= i < len(a); for every other i the operation fails with
\* the index-out-of-range diagnostic, nothing is stored and the buffer is left
\* unchanged; a successful read yields an Integer in 0..255.
C10_SubscriptRange ==
  [][(input'.kind \in {"subscript", "store"} /\ G("a").tag = "STRING"
        /\ G("b").tag = "INTEGER") =>
       LET A == G("a").value.v
           i == G("b").value.v
       IN IF 0 <= i /\ i < Len(bufs[A])
          THEN /\ status'.sig = "ok"
               /\ input'.kind = "subscript" =>
                    /\ G("r")'.tag = "INTEGER"
                    /\ G("r")'.value.v = bufs[A][i + 1]
                    /\ G("r")'.value.v \in 0..255
               /\ input'.kind = "store" =>
                    bufs' = [bufs EXCEPT ![A][i + 1] = input'.v % 256]
          ELSE /\ status'.sig = "throw"
               /\ status'.message =
                    <<"error:", "attempting to index outside of string range">>
               /\ bufs' = bufs]_vars

(***************************************************************************)
(* SpecCalls: the REPL after a first line that defines the functions       *)
(* below, then lines that call them.                                       *)
(***************************************************************************)
Call(f, args) == CallExpr(Id(f), args)
Plus(l, r) == BinaryExpr(l, "+", r)
PrintStmt(expr) == ExprStmt(CallExpr(Id("print"), <<expr>>))

\* var x = 1; var m = 0; var r = nil;
\* var f = fn (p) { x = x + p; return x; };
\* var mk = fn (x) { return fn (p) { x = x + p; return x; }; };
\* var c = mk(10);
\* var g = fn (x, h) { var t = h(1); return x; };
\* var sign = fn (n) { if n < 0 { { return 0 - 1; } } elif n == 0 { return 0; }
\*                     m = m + 1; return 1; };
\* var none = fn () { m = m + 1; };
\* var outer = fn (n) { var s = sign(n); m = m + 10; return s + 100; };
\* var tr = fn (k) { print(k); return fn (u, v) { print(9); return k; }; };
DefinitionsLine(nb, nf) ==
  LET bump == <<AssignStmt("x", Plus(Id("x"), Id("p"))), ReturnStmt(Id("x"))>>
      one == IntegerLiteralExpr(1)
      zero == IntegerLiteralExpr(0)
  IN Line(Desc("definitions", "", "", "", 0, 0),
          << VarStmt("x", one), VarStmt("m", zero), VarStmt("r", NullLiteralExpr),
             VarStmt("f", FnExpr(nf + 1, <<"p">>, bump)),
             VarStmt("mk", FnExpr(nf + 2, <<"x">>,
                                  <<ReturnStmt(FnExpr(nf + 3, <<"p">>, bump))>>)),
             VarStmt("c", Call("mk", <<IntegerLiteralExpr(10)>>)),
             VarStmt("g", FnExpr(nf + 4, <<"x", "h">>,
                                 <<VarStmt("t", Call("h", <<one>>)), ReturnStmt(Id("x"))>>)),
             VarStmt("sign",
                     FnExpr(nf + 5, <<"n">>,
                            << IfStmt(<< IfSect(BinaryExpr(Id("n"), "<", zero),
                                                BlockStmt(<<BlockStmt(<<ReturnStmt(
                                                  BinaryExpr(zero, "-", one))>>)>>)),
                                         IfSect(BinaryExpr(Id("n"), "==", zero),
                                                BlockStmt(<<ReturnStmt(zero)>>)) >>,
                                      Nil),
                               AssignStmt("m", Plus(Id("m"), one)),
                               ReturnStmt(one) >>)),
             VarStmt("none", FnExpr(nf + 6, <<>>, <<AssignStmt("m", Plus(Id("m"), one))>>)),
             VarStmt("outer",
                     FnExpr(nf + 7, <<"n">>,
                            << VarStmt("s", Call("sign", <<Id("n")>>)),
                               AssignStmt("m", Plus(Id("m"), IntegerLiteralExpr(10))),
                               ReturnStmt(Plus(Id("s"), IntegerLiteralExpr(100))) >>)),
             VarStmt("tr",
                     FnExpr(nf + 8, <<"k">>,
                            << PrintStmt(Id("k")),
                               ReturnStmt(FnExpr(nf + 9, <<"u", "v">>,
                                                 << PrintStmt(IntegerLiteralExpr(9)),
                                                    ReturnStmt(Id("k")) >>)) >>)) >>,
          <<>>, 9)

\* r = <h>(<p>);   for h one of f, c, sign, outer
CallLine(h, p) == Line(Desc("call", "", h, "", p, 0), <<AssignStmt("r", Call(h, <<IntExpr(p)>>))>>, <<>>, 0)

\* r = g(<xv>, <h>);   for h one of f, c
CallViaLine(xv, h) ==
  Line(Desc("via", "", "g", h, xv, 0), <<AssignStmt("r", Call("g", <<IntExpr(xv), Id(h)>>))>>,
       <<>>, 0)

\* r = none();
CallNoneLine == Line(Desc("call", "", "none", "", 0, 0), <<AssignStmt("r", Call("none", <<>>))>>, <<>>, 0)

\* r = tr(<k>)(tr(<k> + 1), tr(<k> + 2));
OrderLine(k) ==
  Line(Desc("order", "", "tr", "", k, 0),
       <<AssignStmt("r", CallExpr(Call("tr", <<IntExpr(k)>>),
                                  << Call("tr", <<IntExpr(k + 1)>>),
                                     Call("tr", <<IntExpr(k + 2)>>) >>))>>,
       <<>>, 0)

\* c = mk(<v>);
RemakeLine(v) ==
  Line(Desc("remake", "", "c", "mk", v, 0), <<AssignStmt("c", Call("mk", <<IntExpr(v)>>))>>, <<>>, 0)

MaxCalls == 2

InitCalls == StartsWith(DefinitionsLine(0, 0))

CallClosure ==
  \E h \in {"f", "c"}, p \in {1, 2} :
    /\ nlines < MaxCalls
    /\ Repl(CallLine(h, p))
CallVia ==
  \E h \in {"f", "c"}, xv \in {5, 6} :
    /\ nlines < MaxCalls
    /\ Repl(CallViaLine(xv, h))
CallSign ==
  \E n \in {-1, 0, 1} :
    /\ nlines < MaxCalls
    /\ Repl(CallLine("sign", n))
CallOuter ==
  \E n \in {-1, 0, 1} :
    /\ nlines < MaxCalls
    /\ Repl(CallLine("outer", n))
CallNone ==
  /\ nlines < MaxCalls
  /\ Repl(CallNoneLine)
CallOrder ==
  \E k \in {1, 4} :
    /\ nlines < MaxCalls
    /\ Repl(OrderLine(k))
Remake ==
  \E v \in {20, 30} :
    /\ nlines < MaxCalls
    /\ Repl(RemakeLine(v))

NextCalls == CallClosure \/ CallVia \/ CallSign \/ CallOuter \/ CallNone \/ CallOrder \/ Remake

SpecCalls == InitCalls /\ [][NextCalls]_vars

(***************************************************************************)
(* Properties of the call lines (SpecCalls).                               *)
(***************************************************************************)
\* the Integer bound to n in globalScope
GInt(n) == G(n).value.v
\* the frame the closure c captured, and the Integer its x is bound to
CapturedFrame == G("c").captured
CapturedX == cells[scopes[CapturedFrame].vars["x"]].value.v

BodyEvents == {j \in DOMAIN calls : calls[j].ev = "body"}

\* every call of a Function so far built a frame of its own under the scope the
\* function captured, holding exactly the parameters, bound to the arguments
CallFramesLexical ==
  /\ \A j \in BodyEvents :
       LET e == calls[j]
           parameters == cells[e.fn].value.node.parameters
       IN /\ scopes[e.frame].parent = cells[e.fn].captured
          /\ DOMAIN e.bound = {parameters[i] : i \in DOMAIN parameters}
          /\ \A i \in DOMAIN parameters : e.bound[parameters[i]] = e.args[i]
  /\ \A j, k \in BodyEvents : j # k => calls[j].frame # calls[k].frame

\* the body of g ran in the frame of its call: the call it makes comes from there
BodyRunsInFrame ==
  \A j \in BodyEvents :
    calls[j].fn = scopes[globalScope].vars["g"] =>
      /\ calls[j + 1].ev = "enter"
      /\ calls[j + 1].caller = calls[j].frame

\* C1: every call of a function builds a new frame whose parent is the scope the
\* function literal was evaluated in, never the caller's scope, binds each
\* parameter to its argument there and runs the body there: f (made in the
\* root scope) and c (made in a frame of mk) read and write the x of their own
\* defining scope, also when g calls them from a frame that binds x itself.
C1_LexicalScoping ==
  [][/\ CallFramesLexical'
     /\ BodyRunsInFrame'
     /\ input'.kind \in {"call", "via"} => status'.sig = "ok"
     /\ (input'.kind = "call" /\ input'.n = "f") =>
          /\ GInt("x")' = GInt("x") + input'.i
          /\ GInt("r")' = GInt("x") + input'.i
          /\ CapturedX' = CapturedX
     /\ (input'.kind = "call" /\ input'.n = "c") =>
          /\ CapturedX' = CapturedX + input'.i
          /\ GInt("r")' = CapturedX + input'.i
          /\ GInt("x")' = GInt("x")
     /\ (input'.kind = "via" /\ input'.m = "f") =>
          /\ GInt("r")' = input'.i
          /\ GInt("x")' = GInt("x") + 1
          /\ CapturedX' = CapturedX
     /\ (input'.kind = "via" /\ input'.m = "c") =>
          /\ GInt("r")' = input'.i
          /\ CapturedX' = CapturedX + 1
          /\ GInt("x")' = GInt("x")]_vars

\* g called c from its own frame, which binds x, and c ran under the frame of mk
C1_Witness ==
  /\ input.kind = "via" /\ input.m = "c" /\ status.sig = "ok"
  /\ \E j \in BodyEvents :
       /\ calls[j].fn = scopes[globalScope].vars["c"]
       /\ calls[j].caller # globalScope
       /\ calls[j].caller # cells[calls[j].fn].captured
       /\ "x" \in DOMAIN scopes[calls[j].caller].vars
       /\ scopes[calls[j].frame].parent = CapturedFrame

\* the lines console.log wrote during the last line of input
Printed(before, after) == SubSeq(after, Len(before) + 1, Len(after))

\* C2: in a call the callee expression is evaluated first, then the arguments
\* left to right, and all of them before the body runs: the line
\* r = tr(k)(tr(k+1), tr(k+2)) prints k, k+1, k+2 and then the 9 of the body.
C2_CalleeBeforeArguments ==
  [][input'.kind = "order" =>
       Printed(out, out') = << <<ToString(input'.i)>>, <<ToString(input'.i + 1)>>,
                               <<ToString(input'.i + 2)>>, <<"9">> >>]_vars

\* C5: a return at any depth of blocks and ifs ends the function activation
\* with the carried value and skips the rest of the body; a body that falls
\* through yields Null; the Return never passes the call of its activation, so
\* the calling body continues with the result.
C5_NonLocalReturn ==
  [][/\ status'.cls # "Return"
     /\ (input'.kind = "call" /\ input'.n = "sign") =>
          /\ status'.sig = "ok"
          /\ G("r")'.tag = "INTEGER"
          /\ GInt("r")' = IF input'.i < 0 THEN -1 ELSE IF input'.i = 0 THEN 0 ELSE 1
          /\ GInt("m")' = IF input'.i > 0 THEN GInt("m") + 1 ELSE GInt("m")
     /\ (input'.kind = "call" /\ input'.n = "none") =>
          /\ status'.sig = "ok"
          /\ G("r")'.tag = "NULL"
          /\ GInt("m")' = GInt("m") + 1
     /\ (input'.kind = "call" /\ input'.n = "outer") =>
          /\ status'.sig = "ok"
          /\ G("r")'.tag = "INTEGER"
          /\ GInt("r")' = 100 + (IF input'.i < 0 THEN -1 ELSE IF input'.i = 0 THEN 0 ELSE 1)
          /\ GInt("m")' = GInt("m") + 10 + (IF input'.i > 0 THEN 1 ELSE 0)]_vars

\* outer(-1) ran: sign returned from two blocks inside an if, outer went on
C5_Witness ==
  /\ input.kind = "call" /\ input.n = "outer" /\ input.i = -1
  /\ status.sig = "ok"
  /\ GInt("r") = 99

(***************************************************************************)
(* Spec: the REPL from construction, on lines that bind one value to two   *)
(* names and then negate it or store into it through one of the names.     *)
(***************************************************************************)
Literals ==
  << [v |-> 5, k |-> "int"], [v |-> <<3, 2>>, k |-> "float"], [v |-> TRUE, k |-> "bool"],
     [v |-> 0, k |-> "nil"], [v |-> <<104, 105>>, k |-> "str"], [v |-> 0, k |-> "obj"] >>

\* var a = <la>; var r = nil;  and then, by `how`,
\*   "var":     var b = a;
\*   "assign":  var b = nil; b = a;
\*   "literal": var b = <la>;
DeclareLine(la, how, nb) ==
  LET ea == OperandExpr(Literals[la], nb)
      eb == OperandExpr(Literals[la], nb + Len(ea.lits))
  IN Line(Desc("declare", how, Literals[la].k, "", la, 0),
          <<VarStmt("a", ea.expr), VarStmt("r", NullLiteralExpr)>> \o
            (CASE how = "var" -> <<VarStmt("b", Id("a"))>>
               [] how = "assign" -> <<VarStmt("b", NullLiteralExpr), AssignStmt("b", Id("a"))>>
               [] how = "literal" -> <<VarStmt("b", eb.expr)>>),
          IF how = "literal" THEN ea.lits \o eb.lits ELSE ea.lits, 0)

\* r = <op> <n>;
UnaryLine(op, n) ==
  Line(Desc("unary", op, n, "", 0, 0), <<AssignStmt("r", UnaryExpr(op, Id(n)))>>, <<>>, 0)

\* r = fn (p) { return <op> p; }(<n>);
CallUnaryLine(op, n, nf) ==
  Line(Desc("callunary", op, n, "", 0, 0),
       <<AssignStmt("r", CallExpr(FnExpr(nf + 1, <<"p">>,
                                         <<ReturnStmt(UnaryExpr(op, Id("p")))>>),
                                  <<Id(n)>>))>>,
       <<>>, 1)

\* <n>.k = <v>;
SetMemberLine(n, v) ==
  Line(Desc("setmember", "", n, "", 0, v),
       <<ExprStmt(AssignmentExpr(MemberExpr(Id(n), Id("k")), IntExpr(v)))>>, <<>>, 0)

\* fn (q) { q.k = <v>; }(<n>);
SetMemberParamLine(n, v, nf) ==
  Line(Desc("setmember", "param", n, "", 0, v),
       <<ExprStmt(CallExpr(FnExpr(nf + 1, <<"q">>,
                                  <<ExprStmt(AssignmentExpr(MemberExpr(Id("q"), Id("k")),
                                                            IntExpr(v)))>>),
                           <<Id(n)>>))>>,
       <<>>, 1)

\* <n>[<i>] = <v>;
SetByteLine(n, i, v) ==
  Line(Desc("setbyte", "", n, "", i, v),
       <<ExprStmt(AssignmentExpr(SubscriptExpr(Id(n), IntExpr(i)), IntExpr(v)))>>, <<>>, 0)

\* fn (q) { q[<i>] = <v>; }(<n>);
SetByteParamLine(n, i, v, nf) ==
  Line(Desc("setbyte", "param", n, "", i, v),
       <<ExprStmt(CallExpr(FnExpr(nf + 1, <<"q">>,
                                  <<ExprStmt(AssignmentExpr(SubscriptExpr(Id("q"), IntExpr(i)),
                                                            IntExpr(v)))>>),
                           <<Id(n)>>))>>,
       <<>>, 1)

\* var w = { inner: <n> }; var keep = fn (q) { return fn () { return q; }; }(<n>);
KeepLine(n, nf) ==
  Line(Desc("keep", "", n, "", 0, 0),
       << VarStmt("w", ObjectLiteralExpr(<<Property("inner", Id(n))>>)),
          VarStmt("keep", CallExpr(FnExpr(nf + 1, <<"q">>,
                                          <<ReturnStmt(FnExpr(nf + 2, <<>>,
                                                              <<ReturnStmt(Id("q"))>>))>>),
                                   <<Id(n)>>)) >>,
       <<>>, 2)

\* var f = fn () { return "hi"; }; var s = f(); s[0] = 72; var t = f();
FreshLine(nb, nf) ==
  Line(Desc("fresh", "", "", "", 0, 72),
       << VarStmt("f", FnExpr(nf + 1, <<>>, <<ReturnStmt(StringLiteralExpr(nb + 1))>>)),
          VarStmt("s", Call("f", <<>>)),
          ExprStmt(AssignmentExpr(SubscriptExpr(Id("s"), IntExpr(0)), IntExpr(72))),
          VarStmt("t", Call("f", <<>>)) >>,
       << <<104, 105>> >>, 1)

Names == {"a", "b"}
Hows == {"var", "assign", "literal"}
UnaryOps == {"!", "-"}
MemberValues == {2, 3}
ByteIndices == {0, 1}
ByteValues == {72, 300}

\* the state main.ts starts the loop in
Init ==
  /\ cells = Construction.cells
  /\ bufs = Construction.bufs
  /\ maps = Construction.maps
  /\ scopes = Construction.scopes
  /\ out = Construction.out
  /\ calls = Construction.calls
  /\ status = Status("ok", "", <<>>)
  /\ lits = <<>>
  /\ nfns = 0
  /\ input = Desc("construction", "", "", "", 0, 0)
  /\ nlines = 0
  /\ nargs = 0
  /\ exit = <<>>

Declare ==
  \E la \in DOMAIN Literals, how \in Hows :
    /\ nlines < MaxLines
    /\ ~Declared("a")
    /\ Repl(DeclareLine(la, how, Len(bufs)))
Unary ==
  \E op \in UnaryOps, n \in Names :
    /\ nlines < MaxLines
    /\ Declared("a")
    /\ Repl(UnaryLine(op, n))
CallUnary ==
  \E op \in UnaryOps, n \in Names :
    /\ nlines < MaxLines
    /\ Declared("a")
    /\ Repl(CallUnaryLine(op, n, nfns))
SetMember ==
  \E n \in Names, v \in MemberValues :
    /\ nlines < MaxLines
    /\ Declared("a")
    /\ Repl(SetMemberLine(n, v))
SetMemberParam ==
  \E n \in Names, v \in MemberValues :
    /\ nlines < MaxLines
    /\ Declared("a")
    /\ Repl(SetMemberParamLine(n, v, nfns))
SetByte ==
  \E n \in Names, i \in ByteIndices, v \in ByteValues :
    /\ nlines < MaxLines
    /\ Declared("a")
    /\ Repl(SetByteLine(n, i, v))
SetByteParam ==
  \E n \in Names, i \in ByteIndices, v \in ByteValues :
    /\ nlines < MaxLines
    /\ Declared("a")
    /\ Repl(SetByteParamLine(n, i, v, nfns))
Keep ==
  \E n \in Names :
    /\ nlines < MaxLines
    /\ Declared("a")
    /\ ~Declared("w")
    /\ Repl(KeepLine(n, nfns))
Fresh ==
  /\ nlines < MaxLines
  /\ ~Declared("f")
  /\ Repl(FreshLine(Len(bufs), nfns))

Next ==
  \/ Declare
  \/ Unary
  \/ CallUnary
  \/ SetMember
  \/ SetMemberParam
  \/ SetByte
  \/ SetByteParam
  \/ Keep
  \/ Fresh

Spec == Init /\ [][Next]_vars

(***************************************************************************)
(* Properties of the value lines (Spec).                                   *)
(***************************************************************************)
Primitive(rv) == rv.tag \in {"INTEGER", "FLOAT", "BOOLEAN", "NULL"}

\* the negation the unary operator op yields for the primitive rv
Negation(op, rv) ==
  CASE op = "!" -> JsBool(~rv.value.v)
    [] rv.tag = "INTEGER" -> JsBigInt(-rv.value.v)
    [] rv.tag = "FLOAT" -> JsNumber(<<-rv.value.v[1], rv.value.v[2]>>)

\* op applies to rv
Negatable(op, rv) ==
  IF op = "!" THEN rv.tag = "BOOLEAN" ELSE rv.tag \in {"INTEGER", "FLOAT"}

\* C3: a primitive bound to a second name by `var b = a`, by `b = a` or by
\* passing it to a call is a copy: `!x` and `-x`, applied through a name or
\* through a parameter, yield the negation and leave what a and b read
\* unchanged.
C3_PrimitivesAreValues ==
  [][(input'.kind \in {"unary", "callunary"} /\ Primitive(G("a")) /\ Primitive(G("b"))) =>
       /\ G("a")' = G("a")
       /\ G("b")' = G("b")
       /\ Negatable(input'.op, G(input'.n)) =>
            /\ status'.sig = "ok"
            /\ G("r")'.tag = G(input'.n).tag
            /\ G("r")'.value = Negation(input'.op, G(input'.n))]_vars

\* every binding <<frame, name>> of every scope, and every field <<map, entry>>
Bindings == UNION {{<<fr, x>> : x \in DOMAIN scopes[fr].vars} : fr \in DOMAIN scopes}
Fields == UNION {{<<mi, i>> : i \in DOMAIN maps[mi]} : mi \in DOMAIN maps}

\* the cell refers to the map or buffer ref
RefersTo(cell, tag, ref) == cells[cell].tag = tag /\ cells[cell].value.v = ref

\* reading field k through the object in the cell gives the Integer v
ReadsMember(cell, v) ==
  /\ cells[cell].tag = "OBJECT"
  /\ MapHas(maps[cells[cell].value.v], "k")
  /\ cells[MapGet(maps[cells[cell].value.v], "k")].tag = "INTEGER"
  /\ cells[MapGet(maps[cells[cell].value.v], "k")].value.v = v

\* reading byte i through the string in the cell gives v
ReadsByte(cell, i, v) ==
  /\ cells[cell].tag = "STRING"
  /\ i < Len(bufs[cells[cell].value.v])
  /\ bufs[cells[cell].value.v][i + 1] = v

\* C4: after `o.k = v` or `s[i] = b`, made through a name or through a call
\* parameter, every binding of every scope (variables, parameters, variables a
\* closure captured) and every object field that referred to the same object
\* or buffer reads the new field value or byte.
C4_AliasesObserveMutation ==
  [][/\ (input'.kind = "setmember" /\ G(input'.n).tag = "OBJECT") =>
          /\ status'.sig = "ok"
          /\ \A b \in Bindings :
               RefersTo(scopes[b[1]].vars[b[2]], "OBJECT", G(input'.n).value.v) =>
                 ReadsMember(scopes[b[1]].vars[b[2]], input.v)'
          /\ \A f \in Fields :
               RefersTo(maps[f[1]][f[2]].cell, "OBJECT", G(input'.n).value.v) =>
                 ReadsMember(maps[f[1]][f[2]].cell, input.v)'
     /\ (input'.kind = "setbyte" /\ G(input'.n).tag = "STRING"
           /\ input'.i < Len(bufs[G(input'.n).value.v])) =>
          /\ status'.sig = "ok"
          /\ \A b \in Bindings :
               RefersTo(scopes[b[1]].vars[b[2]], "STRING", G(input'.n).value.v) =>
                 ReadsByte(scopes[b[1]].vars[b[2]], input.i, input.v % 256)'
          /\ \A f \in Fields :
               RefersTo(maps[f[1]][f[2]].cell, "STRING", G(input'.n).value.v) =>
                 ReadsByte(maps[f[1]][f[2]].cell, input.i, input.v % 256)']_vars

\* a store through a call parameter was read back through a, b, the field
\* w.inner and the variable the closure keep captured
C4_Witness ==
  /\ input.kind = "setmember" /\ input.op = "param" /\ status.sig = "ok"
  /\ Declared("w")
  /\ G("b").tag = "OBJECT"
  /\ G("a").value.v = G("b").value.v
  /\ ReadsMember(scopes[globalScope].vars["a"], input.v)
  /\ ReadsMember(MapGet(maps[G("w").value.v], "inner"), input.v)
  /\ \E fr \in DOMAIN scopes :
       /\ fr # globalScope
       /\ "q" \in DOMAIN scopes[fr].vars
       /\ fr = G("keep").captured
       /\ ReadsMember(scopes[fr].vars["q"], input.v)

\* C6: every evaluation of a String literal yields a fresh buffer: the bytes
\* of every String literal node stay what the parser built, and after
\* var f = fn () { return "hi"; }; var s = f(); s[0] = 72; var t = f();
\* t is "hi", in a buffer of its own.
C6_LiteralsAreFresh ==
  /\ \A k \in DOMAIN lits : bufs[lits[k].buf] = lits[k].bytes
  /\ (input.kind = "fresh" /\ status.sig = "ok") =>
       /\ G("t").value.v # G("s").value.v
       /\ bufs[G("t").value.v] = <<104, 105>>
       /\ bufs[G("s").value.v] = <<72, 105>>

(***************************************************************************)
(* Properties of the operator lines (SpecOps): operands that do not match. *)
(***************************************************************************)
MatchingOps == {"and", "or", "<", ">", "+", "-", "*", "/", "%"}

\* the variants the operator op accepts on both sides
Supported(op) ==
  CASE op \in {"and", "or"} -> {"BOOLEAN"}
    [] op = "+" -> {"INTEGER", "FLOAT", "STRING"}
    [] OTHER -> {"INTEGER", "FLOAT"}

Mismatch(op, ta, tb) == ta # tb \/ ta \notin Supported(op)

\* C11: a binary operator that requires matching operands, applied to operands
\* of differing or unsupported variants, evaluates the left and then the right
\* operand and raises a runtime error: no value is produced (r keeps its
\* binding), and no scope, object or string that existed changes; Integer and
\* Float are never converted to each other.
C11_MismatchIsAnError ==
  [][(input'.kind \in {"binary", "binarycalls"} /\ input'.op \in MatchingOps
        /\ Mismatch(input'.op, G("a").tag, G("b").tag)) =>
       /\ status'.sig = "throw"
       /\ status'.cls = "Error"
       /\ Head(status'.message) = "error:"
       /\ \A fr \in DOMAIN scopes : scopes'[fr] = scopes[fr]
       /\ \A c \in DOMAIN cells : cells'[c] = cells[c]
       /\ maps' = maps
       /\ bufs' = bufs
       /\ input'.kind = "binary" =>
            /\ scopes' = scopes
            /\ Printed(out, out') = <<status'.message>>
       /\ input'.kind = "binarycalls" =>
            Printed(out, out') = << <<"1">>, <<"2">>, status'.message >>]_vars

\* an Integer and a Float were added: both operand calls printed, then the error
C11_Witness ==
  /\ input.kind = "binarycalls" /\ input.op = "+"
  /\ G("a").tag = "INTEGER" /\ G("b").tag = "FLOAT"
  /\ status.sig = "throw"
  /\ G("r").tag = "NULL"
  /\ out = << <<"1">>, <<"2">>, status.message >>

(***************************************************************************)
(* The driver: Deno.args.length selects the REPL (no argument), file mode  *)
(* (one argument) or neither branch (more arguments).  An input is a line  *)
(* of the REPL or the text of the file: two statements, with the           *)
(* diagnostics the lexer and the parser returned for it.                   *)
(***************************************************************************)
\* var x = 1;    x = x + 1;    print(x);    panic(x);
SourceStmts ==
  << VarStmt("x", IntegerLiteralExpr(1)),
     AssignStmt("x", Plus(Id("x"), IntegerLiteralExpr(1))),
     PrintStmt(Id("x")),
     ExprStmt(Call("panic", <<Id("x")>>)) >>

\* the errs of lex(input) and of parse(toks), nl and np of them
LexErrs(nl) == [j \in 1..nl |-> <<"error:", "unexpected character">>]
ParseErrs(np) == [j \in 1..np |-> <<"error:", "unexpected token">>]

\* the input made of the statements s and t, with nl lex and np parse diagnostics
SourceLine(s, t, nl, np) ==
  [Line(Desc("source", "", "", "", nl, np), <<SourceStmts[s], SourceStmts[t]>>, <<>>, 0)
     EXCEPT !.lexErrs = LexErrs(nl), !.parseErrs = ParseErrs(np)]

\* the body of the file-mode branch: the same phases, on the text of the file
fileBody(st, p) == replBody(st, p)

MaxInputs == 2
MaxArgs == 2

InitDriver ==
  /\ cells = Construction.cells
  /\ bufs = Construction.bufs
  /\ maps = Construction.maps
  /\ scopes = Construction.scopes
  /\ out = Construction.out
  /\ calls = Construction.calls
  /\ status = Status("ok", "", <<>>)
  /\ lits = <<>>
  /\ nfns = 0
  /\ input = Desc("construction", "", "", "", 0, 0)
  /\ nlines = 0
  /\ nargs \in 0..MaxArgs
  /\ exit = <<>>

\* prompt(">") returned a line
ReplLine ==
  \E s \in DOMAIN SourceStmts, t \in DOMAIN SourceStmts, nl \in {0, 2}, np \in {0, 1} :
    /\ nargs = 0
    /\ exit = <<>>
    /\ nlines < MaxInputs
    /\ Repl(SourceLine(s, t, nl, np))

\* prompt(">") returned null: the loop ends and so does the module
ReplEof ==
  /\ nargs = 0
  /\ exit = <<>>
  /\ exit' = <<0>>
  /\ UNCHANGED <<cells, bufs, maps, scopes, out, calls, lits, nfns, input, status, nlines,
                 nargs>>

\* one argument: the file is read and run, and the module ends
RunFile ==
  \E s \in DOMAIN SourceStmts, t \in DOMAIN SourceStmts, nl \in {0, 2}, np \in {0, 1} :
    /\ nargs = 1
    /\ exit = <<>>
    /\ Becomes(fileBody(Heap, SourceLine(s, t, nl, np)), SourceLine(s, t, nl, np))
    /\ exit' = <<0>>

\* more than one argument: neither branch is taken, and the module ends
RunNothing ==
  /\ nargs > 1
  /\ exit = <<>>
  /\ exit' = <<0>>
  /\ UNCHANGED <<cells, bufs, maps, scopes, out, calls, lits, nfns, input, status, nlines,
                 nargs>>

NextDriver == ReplLine \/ ReplEof \/ RunFile \/ RunNothing

SpecDriver == InitDriver /\ [][NextDriver]_vars

\* the input just handled produced no lex, parse or runtime diagnostic
NoDiagnostic == input.i = 0 /\ input.v = 0 /\ status.sig = "ok"

\* C12: once the process has exited, with one argument the exit code is 0
\* exactly when the file produced no lex, parse or runtime diagnostic, and with
\* more than one argument a usage error was printed and the exit code is not 0.
C12_FileModeExitStatus ==
  exit # <<>> =>
    /\ nargs = 1 => (exit = <<0>> <=> NoDiagnostic)
    /\ nargs > 1 => (exit # <<0>> /\ out # <<>>)

\* the names bound in the root scope
RootNames == DOMAIN scopes[globalScope].vars

\* C13: on every input (a line of the REPL or the file) the lex diagnostics
\* are printed before the parse diagnostics, and when either list is not empty
\* interpret is not started: no object is made or changed, no scope changes, no
\* builtin runs and nothing but the diagnostics is printed; when both lists are
\* empty interpret runs.  In the REPL the process keeps running after any
\* input, with the same root scope and every name it had bound.
C13_PhaseGating ==
  [][(input'.kind = "source" /\ nlines' = nlines + 1) =>
       /\ (input'.i > 0 \/ input'.v > 0) =>
            /\ status'.sig = "skipped"
            /\ cells' = cells
            /\ maps' = maps
            /\ bufs' = bufs
            /\ scopes' = scopes
            /\ calls' = calls
            /\ Printed(out, out') = LexErrs(input'.i) \o ParseErrs(input'.v)
       /\ (input'.i = 0 /\ input'.v = 0) =>
            /\ status'.sig \in {"ok", "throw"}
            /\ Len(cells') > Len(cells)
            /\ status'.sig = "throw" =>
                 Printed(out, out')[Len(Printed(out, out'))] = status'.message
       /\ nargs = 0 =>
            /\ exit' = <<>>
            /\ scopes'[globalScope].parent = scopes[globalScope].parent
            /\ RootNames \subseteq DOMAIN scopes'[globalScope].vars]_vars

\* in the REPL, a second line with lex and parse diagnostics was refused after
\* a first line that bound x and printed nothing: x is still bound, only the
\* three diagnostics were printed and the loop goes on
C13_Witness ==
  /\ nargs = 0
  /\ nlines = 2
  /\ input.i > 0
  /\ input.v > 0
  /\ status.sig = "skipped"
  /\ Declared("x")
  /\ GInt("x") = 2
  /\ out = LexErrs(input.i) \o ParseErrs(input.v)
  /\ exit = <<>>

====
